---- MODULE Spec2Model ----
(***************************************************************************)
(* Model of "Play console/resize_logo.py": resize_image(input_path,        *)
(* output_path, size) opens an image, resizes it, saves it and prints one  *)
(* console message.  The imaging library and the filesystem are the        *)
(* environment: their outcomes (missing file, permission error, undecod-   *)
(* able data, failing write) are chosen nondeterministically.              *)
(***************************************************************************)
EXTENDS Integers, Sequences, FiniteSets, TLC

\* ---------------------------------------------------------------- bounds
MaxCalls == 2
MaxDim == 1

\* ------------------------------------------------------------- filesystem
Paths == {"logo.png", "logo_512.png", "nodir/out.png"}

\* paths whose parent directory does not exist
MissingDirPaths == {"nodir/out.png"}

DirExists(p) == p \notin MissingDirPaths

NoFile == [kind |-> "none", dims |-> <<0, 0>>]
Junk == [kind |-> "junk", dims |-> <<0, 0>>]
ImageFile(d) == [kind |-> "image", dims |-> d]

NoImage == [kind |-> "none", dims |-> <<0, 0>>]
Bitmap(d) == [kind |-> "bitmap", dims |-> d]

\* ------------------------------------------------------------- arguments
NoArg == <<-1, -1>>

DefaultSize == <<512, 512>>

SizeArgs == {NoArg} \cup ((0..MaxDim) \X (0..MaxDim))

\* size=(512, 512) default parameter
EffectiveSize(arg) == IF arg = NoArg THEN DefaultSize ELSE arg

\* ------------------------------------------------------------ exceptions
NoExc == [type |-> "None", text |-> ""]
Exc(t, txt) == [type |-> t, text |-> txt]

\* Python class hierarchy of the exception types the steps can raise
IsSubclass(t, base) ==
    CASE base = "FileNotFoundError" -> t = "FileNotFoundError"
      [] base = "OSError" -> t \in {"FileNotFoundError", "PermissionError",
                                    "UnidentifiedImageError", "OSError"}
      [] base = "Exception" -> t \in {"FileNotFoundError", "PermissionError",
                                      "UnidentifiedImageError", "OSError",
                                      "ValueError"}
      [] OTHER -> FALSE

\* str(e)
Str(e) == e.text


\* variant: the success text names a fixed file
SuccessMessageFixed(op) == <<"Success! Image saved as ", "logo_512.png">>
\* ---------------------------------------------------------------- messages
SuccessMessage(op) == <<"Success! Image saved as ", op>>
FileNotFoundMessage(ip) == <<"Error: '", "logo.png", "' not found.">>
GenericMessage(e) == <<"An error occurred: ", Str(e)>>


\* variant: the FileNotFoundError clause is absent
HandlerGenericOnly(t) ==
    IF IsSubclass(t, "Exception") THEN "generic" ELSE "propagate"

\* variant: the second clause reads "except OSError as e"
HandlerOSErrorOnly(t) ==
    IF IsSubclass(t, "FileNotFoundError") THEN "fnf"
    ELSE IF IsSubclass(t, "OSError") THEN "generic"
    ELSE "propagate"
\* which except clause takes the exception
Handler(t) ==
    IF IsSubclass(t, "FileNotFoundError") THEN "fnf"
    ELSE IF IsSubclass(t, "Exception") THEN "generic"
    ELSE "propagate"

\* ------------------------------------------------------------ library calls
\* Image.open(input_path): the exception it raises, NoExc when it succeeds
OpenExc(ip, file, fault) ==
    IF ~DirExists(ip) \/ file.kind = "none"
    THEN Exc("FileNotFoundError", "No such file or directory")
    ELSE IF fault = "PermissionError"
    THEN Exc("PermissionError", "Permission denied")
    ELSE IF file.kind = "junk"
    THEN Exc("UnidentifiedImageError", "cannot identify image file")
    ELSE NoExc

\* img.resize(size, LANCZOS): the exception it raises
ResizeExc(sz, fault) ==
    IF fault = "OSError" THEN Exc("OSError", "image file is truncated")
    ELSE IF sz[1] <= 0 \/ sz[2] <= 0
    THEN Exc("ValueError", "height and width must be > 0")
    ELSE NoExc


\* variant: the image is passed on unscaled
ResizeResultKeep(image, sz) == image
\* img.resize(size, LANCZOS): the new image
ResizeResult(image, sz) == Bitmap(sz)

\* resized_img.save(output_path): the exception it raises
SaveExc(op, fault) ==
    IF ~DirExists(op)
    THEN Exc("FileNotFoundError", "No such file or directory")
    ELSE IF fault = "PermissionError"
    THEN Exc("PermissionError", "Permission denied")
    ELSE IF fault = "OSError"
    THEN Exc("OSError", "No space left on device")
    ELSE NoExc


\* variant: save() is given the input path
SaveTargetInput(ip, op) == ip
\* the path save() writes
SaveTarget(ip, op) == op

\* faults the environment can inject into each library call
OpenFaults == {"none", "PermissionError"}
ResizeFaults == {"none", "OSError"}
SaveFaults == {"none", "PermissionError", "OSError"}

\* ------------------------------------------------------------------ state
VARIABLES
    pc,            \* position in resize_image
    calls,         \* invocations started so far
    fs,            \* filesystem: path -> file
    input_path, output_path, size,   \* parameters of the invocation
    sizeArg,       \* the size argument as the caller passed it (NoArg: omitted)
    img,           \* the image bound by "with Image.open(...) as img"
    fpOpen,        \* the input file handle held by img is open
    resized_img,   \* local resized_img
    exc,           \* exception in flight
    console,       \* lines printed by this invocation
    exitStatus,    \* "none" | "running" | "normal" | "error"
    fsAtCall,      \* history: the filesystem when the invocation started
    steps,         \* history: library calls attempted, with their outcome
    raised,        \* history: first exception raised, and the step raising it
    saveCompleted  \* history: save() returned normally

vars == <<pc, calls, fs, input_path, output_path, size, sizeArg, img, fpOpen,
          resized_img, exc, console, exitStatus, fsAtCall, steps, raised,
          saveCompleted>>

NoRaise == [type |-> "None", text |-> "", step |-> "none"]
Raise(e, st) == [type |-> e.type, text |-> e.text, step |-> st]
Step(name, e) == [op |-> name, ok |-> (e = NoExc)]

\* files present before the program runs
InitFiles ==
    { f \in [Paths -> {NoFile, Junk, ImageFile(<<1024, 1024>>),
                       ImageFile(DefaultSize)}] :
        /\ \A p \in MissingDirPaths : f[p] = NoFile
        /\ f["logo_512.png"] \in {NoFile, ImageFile(DefaultSize)} }

Init ==
    /\ pc = "idle"
    /\ calls = 0
    /\ fs \in InitFiles
    /\ input_path = "logo.png"
    /\ output_path = "logo_512.png"
    /\ size = DefaultSize
    /\ sizeArg = NoArg
    /\ img = NoImage
    /\ fpOpen = FALSE
    /\ resized_img = NoImage
    /\ exc = NoExc
    /\ console = <<>>
    /\ exitStatus = "none"
    /\ fsAtCall = fs
    /\ steps = <<>>
    /\ raised = NoRaise
    /\ saveCompleted = FALSE

\* ---------------------------------------------------------------- actions
\* resize_image(ip, op, arg) is entered
Call ==
    /\ pc \in {"idle", "done"}
    /\ exitStatus # "error"
    /\ calls < MaxCalls
    /\ \E ip \in Paths, op \in Paths, arg \in SizeArgs :
        /\ input_path' = ip
        /\ output_path' = op
        /\ sizeArg' = arg
        /\ size' = EffectiveSize(arg)
    /\ calls' = calls + 1
    /\ pc' = "open"
    /\ img' = NoImage
    /\ fpOpen' = FALSE
    /\ resized_img' = NoImage
    /\ exc' = NoExc
    /\ console' = <<>>
    /\ exitStatus' = "running"
    /\ fsAtCall' = fs
    /\ steps' = <<>>
    /\ raised' = NoRaise
    /\ saveCompleted' = FALSE
    /\ UNCHANGED fs

\* with Image.open(input_path) as img:
Open ==
    /\ pc = "open"
    /\ \E fault \in OpenFaults :
        LET e == OpenExc(input_path, fs[input_path], fault) IN
        /\ steps' = Append(steps, Step("open", e))
        /\ IF e = NoExc
           THEN /\ img' = Bitmap(fs[input_path].dims)
                /\ fpOpen' = TRUE
                /\ pc' = "resize"
                /\ UNCHANGED <<exc, raised>>
           ELSE /\ exc' = e
                /\ raised' = Raise(e, "open")
                /\ pc' = "except"
                /\ UNCHANGED <<img, fpOpen>>
    /\ UNCHANGED <<calls, fs, input_path, output_path, size, sizeArg,
                   resized_img, console, exitStatus, fsAtCall, saveCompleted>>

\* resized_img = img.resize(size, Image.Resampling.LANCZOS)
Resize ==
    /\ pc = "resize"
    /\ \E fault \in ResizeFaults :
        LET e == ResizeExc(size, fault) IN
        /\ steps' = Append(steps, Step("resize", e))
        /\ IF e = NoExc
           THEN /\ resized_img' = ResizeResult(img, size)
                /\ pc' = "save"
                /\ UNCHANGED <<exc, raised>>
           ELSE /\ exc' = e
                /\ raised' = Raise(e, "resize")
                /\ pc' = "with_exit"
                /\ UNCHANGED resized_img
    /\ UNCHANGED <<calls, fs, input_path, output_path, size, sizeArg, img,
                   fpOpen, console, exitStatus, fsAtCall, saveCompleted>>

\* resized_img.save(output_path)
Save ==
    /\ pc = "save"
    /\ \E fault \in SaveFaults, removed \in BOOLEAN :
        LET target == SaveTarget(input_path, output_path)
            e == SaveExc(target, fault)
            created == fs[target].kind = "none"
        IN
        /\ steps' = Append(steps, Step("save", e))
        /\ IF e = NoExc
           THEN /\ fs' = [fs EXCEPT ![target] = ImageFile(resized_img.dims)]
                /\ saveCompleted' = TRUE
                /\ pc' = "print"
                /\ UNCHANGED <<exc, raised>>
           ELSE /\ exc' = e
                /\ raised' = Raise(e, "save")
                /\ pc' = "with_exit"
                /\ UNCHANGED saveCompleted
                /\ IF e.type = "OSError"
                   \* the file was opened for writing, the write failed: a
                   \* file that save() created is removed when that is
                   \* possible, an older file stays truncated
                   THEN fs' = [fs EXCEPT ![target] =
                                 IF created /\ removed THEN NoFile ELSE Junk]
                   ELSE UNCHANGED fs
    /\ UNCHANGED <<calls, input_path, output_path, size, sizeArg, img, fpOpen,
                   resized_img, console, exitStatus, fsAtCall>>

\* print(f"Success! Image saved as {output_path}")
PrintSuccess ==
    /\ pc = "print"
    /\ console' = Append(console, SuccessMessage(output_path))
    /\ pc' = "with_exit"
    /\ UNCHANGED <<calls, fs, input_path, output_path, size, sizeArg, img,
                   fpOpen, resized_img, exc, exitStatus, fsAtCall, steps,
                   raised, saveCompleted>>


\* variant: the image is opened without a with block and never closed
WithExitNoClose ==
    /\ pc = "with_exit"
    /\ pc' = IF exc = NoExc THEN "return" ELSE "except"
    /\ UNCHANGED <<calls, fs, input_path, output_path, size, sizeArg, img,
                   fpOpen, resized_img, exc, console, exitStatus, fsAtCall,
                   steps, raised, saveCompleted>>
\* leaving the with block, normally or by an exception: img is closed
WithExit ==
    /\ pc = "with_exit"
    /\ img' = NoImage
    /\ fpOpen' = FALSE
    /\ pc' = IF exc = NoExc THEN "return" ELSE "except"
    /\ UNCHANGED <<calls, fs, input_path, output_path, size, sizeArg,
                   resized_img, exc, console, exitStatus, fsAtCall, steps,
                   raised, saveCompleted>>


\* variant: the generic handler starts the operation again
ExceptRetry ==
    /\ pc = "except"
    /\ LET h == Handler(exc.type) IN
       /\ console' = Append(console,
                            IF h = "fnf"
                            THEN FileNotFoundMessage(input_path)
                            ELSE GenericMessage(exc))
       /\ exc' = NoExc
       /\ pc' = IF h = "fnf" THEN "return" ELSE "open"
    /\ UNCHANGED <<calls, fs, input_path, output_path, size, sizeArg, img,
                   fpOpen, resized_img, exitStatus, fsAtCall, steps, raised,
                   saveCompleted>>
\* except FileNotFoundError: ... except Exception as e: ...
Except ==
    /\ pc = "except"
    /\ LET h == Handler(exc.type) IN
       IF h = "propagate"
       THEN /\ pc' = "done"
            /\ exitStatus' = "error"
            /\ UNCHANGED <<console, exc>>
       ELSE /\ console' = Append(console,
                                 IF h = "fnf"
                                 THEN FileNotFoundMessage(input_path)
                                 ELSE GenericMessage(exc))
            /\ exc' = NoExc
            /\ pc' = "return"
            /\ UNCHANGED exitStatus
    /\ UNCHANGED <<calls, fs, input_path, output_path, size, sizeArg, img,
                   fpOpen, resized_img, fsAtCall, steps, raised,
                   saveCompleted>>


\* variant: the success print stands after the try statement
ReturnAlsoPrints ==
    /\ pc = "return"
    /\ pc' = "done"
    /\ exitStatus' = "normal"
    /\ img' = NoImage
    /\ resized_img' = NoImage
    /\ console' = IF raised = NoRaise THEN console
                  ELSE Append(console, SuccessMessage(output_path))
    /\ UNCHANGED <<calls, fs, input_path, output_path, size, sizeArg, fpOpen,
                   exc, fsAtCall, steps, raised, saveCompleted>>
\* the function returns: its locals are dropped
Return ==
    /\ pc = "return"
    /\ pc' = "done"
    /\ exitStatus' = "normal"
    /\ img' = NoImage
    /\ resized_img' = NoImage
    /\ UNCHANGED <<calls, fs, input_path, output_path, size, sizeArg, fpOpen,
                   exc, console, fsAtCall, steps, raised, saveCompleted>>

Next ==
    \/ Call
    \/ Open
    \/ Resize
    \/ Save
    \/ PrintSuccess
    \/ WithExit
    \/ Except
    \/ Return

Spec == Init /\ [][Next]_vars

\* the program is sequential and synchronous: a started invocation runs on
FairSpec ==
    /\ Spec
    /\ WF_vars(Open) /\ WF_vars(Resize) /\ WF_vars(Save)
    /\ WF_vars(PrintSuccess) /\ WF_vars(WithExit) /\ WF_vars(Except)
    /\ WF_vars(Return)

TypeOK ==
    /\ pc \in {"idle", "open", "resize", "save", "print", "with_exit",
               "except", "return", "done"}
    /\ calls \in 0..MaxCalls
    /\ input_path \in Paths /\ output_path \in Paths
    /\ fpOpen \in BOOLEAN /\ saveCompleted \in BOOLEAN
    /\ exitStatus \in {"none", "running", "normal", "error"}

\* ----------------------------------------------------------------- claims
IsSuccess(m) == m[1] = "Success! Image saved as "
IsNotFound(m) == m[1] = "Error: '"
IsGeneric(m) == m[1] = "An error occurred: "
InputMissing == fsAtCall[input_path].kind = "none"
Lines == 1..Len(console)

\* C1: when save() has completed, the file at the output path is an image
\* whose dimensions are exactly the requested (w, h), whatever the input's
\* dimensions were; with the size argument omitted they are (512, 512).
C1_OutputHasRequestedSize ==
    saveCompleted =>
        /\ fs[output_path].kind = "image"
        /\ fs[output_path].dims =
              (IF sizeArg = NoArg THEN <<512, 512>> ELSE sizeArg)
        /\ fs[output_path].dims[1] > 0 /\ fs[output_path].dims[2] > 0

C1_Witness ==
    /\ pc = "done"
    /\ saveCompleted
    /\ sizeArg = <<1, 1>>
    /\ fsAtCall[input_path] = ImageFile(<<1024, 1024>>)
    /\ input_path # output_path

\* C2: when the input path does not exist, the run ends having printed the
\* FileNotFound message, the output path is neither created nor modified,
\* and neither resize nor save is attempted.
C2_MissingInputNoWrite ==
    (pc # "idle" /\ InputMissing) =>
        /\ fs[output_path] = fsAtCall[output_path]
        /\ \A i \in 1..Len(steps) : steps[i].op = "open"
        /\ pc = "done" =>
              console = << <<"Error: '", "logo.png", "' not found.">> >>

C2_Witness ==
    /\ pc = "done"
    /\ InputMissing
    /\ DirExists(input_path)
    /\ Len(console) = 1
    /\ fsAtCall[output_path].kind = "image"

\* C3 (as claimed): every failure other than a missing input file, raised
\* by open, resize or save, is reported by the generic message carrying the
\* error text, never by the FileNotFound message.
C3_OtherFailuresGeneric ==
    (pc = "done" /\ raised # NoRaise /\ ~InputMissing) =>
        console = << <<"An error occurred: ", raised.text>> >>

\* C4: every invocation runs to its end, ends normally, and has printed a
\* message by then; no exception leaves resize_image.
C4_AlwaysCompletes ==
    /\ [](pc = "done" => (exitStatus = "normal" /\ Len(console) >= 1))
    /\ [](exitStatus # "error")
    /\ ((pc = "open") ~> (pc = "done"))

C4_Witness ==
    /\ pc = "done"
    /\ exitStatus = "normal"
    /\ raised.step = "resize"
    /\ raised.type = "ValueError"

\* C5: once the operation has finished, on any exit path, the input file
\* handle is closed and neither the opened nor the resized image is held.
C5_ResourcesReleased ==
    pc = "done" => (~fpOpen /\ img = NoImage /\ resized_img = NoImage)

C5_Witness ==
    /\ pc = "done"
    /\ raised.step = "save"
    /\ ~fpOpen

\* C6: a success message is printed only after save() completed, on a run
\* without failure, and contains the output path passed in; a finished run
\* printed it exactly when save() completed.
C6_SuccessIffSaved ==
    /\ \A i \in Lines :
          IsSuccess(console[i]) =>
              /\ saveCompleted
              /\ raised = NoRaise
              /\ console[i][2] = output_path
    /\ pc = "done" =>
          (saveCompleted <=> \E i \in Lines : IsSuccess(console[i]))

C6_Witness ==
    /\ pc = "done"
    /\ saveCompleted
    /\ output_path = "logo.png"
    /\ \E i \in Lines : IsSuccess(console[i])

\* C7 (as claimed): for an input path that does not exist, the printed
\* FileNotFound text names the input path of that invocation.
C7_NotFoundNamesInput ==
    (pc = "done" /\ InputMissing) =>
        \E i \in Lines : IsNotFound(console[i]) /\ console[i][2] = input_path

\* C8: open, resize and save are attempted at most once each and in that
\* order, each only after the previous one succeeded, and nothing is
\* attempted after the first failure.
C8_LinearNoRetry ==
    /\ Len(steps) <= 3
    /\ \A i \in 1..Len(steps) :
          /\ steps[i].op = <<"open", "resize", "save">>[i]
          /\ (i < Len(steps) => steps[i].ok)
    /\ raised # NoRaise =>
          (Len(steps) >= 1 /\ ~steps[Len(steps)].ok
             /\ steps[Len(steps)].op = raised.step)

C8_Witness ==
    /\ pc = "done"
    /\ Len(steps) = 3
    /\ ~steps[3].ok

\* C9: a finished invocation has printed exactly one message, which is one
\* of the success, FileNotFound and generic messages; never two are printed.
C9_ExactlyOneMessage ==
    /\ Len(console) <= 1
    /\ pc = "done" => Len(console) = 1
    /\ \A i \in Lines :
          Cardinality({k \in {"s", "n", "g"} :
                          \/ (k = "s" /\ IsSuccess(console[i]))
                          \/ (k = "n" /\ IsNotFound(console[i]))
                          \/ (k = "g" /\ IsGeneric(console[i]))}) = 1

C9_Witness ==
    /\ pc = "done"
    /\ Len(console) = 1
    /\ IsGeneric(console[1])
    /\ raised.step = "save"

\* C10: no path other than the output path is ever written; so with
\* different paths the input file is unchanged after any run, and with
\* equal paths a successful run leaves the new image in the input file.
C10_OnlyOutputWritten ==
    /\ \A p \in Paths \ {output_path} : fs[p] = fsAtCall[p]
    /\ (saveCompleted /\ input_path = output_path) =>
          fs[input_path] = ImageFile(size)

C10_Witness ==
    /\ pc = "done"
    /\ saveCompleted
    /\ input_path = output_path
    /\ fs[input_path] # fsAtCall[input_path]

====
